---- MODULE Spec2Model ----
(***************************************************************************)
(* A model of api/index.py, the eShopCo metrics service: the telemetry     *)
(* dataset loaded once at import, the aggregation calculate_metrics, and   *)
(* the two request handlers get_metrics (POST /api/metrics) and root       *)
(* (GET /).                                                                *)
(*                                                                         *)
(* Numbers.  The program computes on floats; the model computes on exact   *)
(* decimals with three fractional digits, held as integers counting        *)
(* thousandths (100.004 ms is 100004, an uptime of 0.99 is 990).  A value  *)
(* that is not yet rounded is a fraction [num, den] of thousandths.        *)
(* Rounding to two decimals is rounding to a multiple of 10 thousandths.   *)
(* Binary representation error of float64 is outside the model.            *)
(*                                                                         *)
(* Dicts.  A Python dict is insertion-ordered; it is modelled as a         *)
(* sequence of <<key, value>> pairs with distinct keys.                    *)
(***************************************************************************)
EXTENDS Integers, Sequences, FiniteSets

VARIABLES
  pc,              \* "import" (module body running), "serving", "crashed"
  file,            \* q-vercel-latency.json as found on disk at import
  TELEMETRY_DATA,  \* the module global, a dict region -> list of records
  inflight,        \* per client: the request the framework has accepted
  responses,       \* per client: the handler's return value, not yet sent
  samples,         \* calculator harness: the data argument
  calls            \* calculator harness: the last two calls and results

vars == <<pc, file, TELEMETRY_DATA, inflight, responses, samples, calls>>

(***************************************************************************)
(* Bounds of the model.                                                    *)
(***************************************************************************)
\* longest sample list handed to calculate_metrics in the calculator harness
MaxSamples == 3
\* longest "regions" list of a POST body
MaxRegions == 2
\* most members of the JSON object in the dataset file
MaxMembers == 2

(***************************************************************************)
(* Python dict operations.                                                 *)
(***************************************************************************)
EmptyDict == <<>>

\* k in d
HasKey(d, k) == \E i \in DOMAIN d : d[i][1] = k

\* d[k]
GetItem(d, k) == d[CHOOSE i \in DOMAIN d : d[i][1] = k][2]

\* d[k] = v : a new key goes last, an old key keeps its place
SetItem(d, k, v) ==
  IF HasKey(d, k)
    THEN [i \in DOMAIN d |-> IF d[i][1] = k THEN <<k, v>> ELSE d[i]]
    ELSE Append(d, <<k, v>>)

\* list(d.keys())
Keys(d) == [i \in DOMAIN d |-> d[i][1]]

(***************************************************************************)
(* Numeric helpers: numpy's mean, sort and percentile, Python's round.     *)
(***************************************************************************)
RECURSIVE SeqSum(_)
SeqSum(xs) == IF xs = <<>> THEN 0 ELSE Head(xs) + SeqSum(Tail(xs))

\* variant: the sum, not divided by the length
np_mean_nodiv(xs) == [num |-> SeqSum(xs), den |-> 1]
\* np.mean(xs) as an exact fraction; xs is not empty
np_mean(xs) == [num |-> SeqSum(xs), den |-> Len(xs)]

RECURSIVE Insert(_, _)
Insert(x, s) ==
  IF s = <<>> THEN <<x>>
  ELSE IF x <= Head(s) THEN <<x>> \o s
  ELSE <<Head(s)>> \o Insert(x, Tail(s))

\* np.sort(xs): ascending
RECURSIVE np_sort(_)
np_sort(xs) == IF xs = <<>> THEN <<>> ELSE Insert(Head(xs), np_sort(Tail(xs)))

\* variant: the values taken in the order given, not sorted
np_percentile_unsorted(xs, q) ==
  LET n     == Len(xs)
      prev  == ((n - 1) * q) \div 100
      gamma == ((n - 1) * q) % 100
      next  == IF prev + 1 < n THEN prev + 1 ELSE n - 1
      a     == xs[prev + 1]
      b     == xs[next + 1]
  IN [num |-> 100 * a + (b - a) * gamma, den |-> 100]
\* variant: the interpolation started from the upper value
np_percentile_overshoot(xs, q) ==
  LET n     == Len(xs)
      arr   == np_sort(xs)
      prev  == ((n - 1) * q) \div 100
      gamma == ((n - 1) * q) % 100
      next  == IF prev + 1 < n THEN prev + 1 ELSE n - 1
      a     == arr[prev + 1]
      b     == arr[next + 1]
  IN [num |-> 100 * b + (b - a) * gamma, den |-> 100]
\* np.percentile(xs, q), method "linear": the virtual index (n-1)*q/100 of
\* the sorted values, its floor and the next index, and the interpolation
\* a + (b - a) * gamma.  The result is an exact fraction; xs is not empty.
np_percentile(xs, q) ==
  LET n     == Len(xs)
      arr   == np_sort(xs)
      prev  == ((n - 1) * q) \div 100
      gamma == ((n - 1) * q) % 100
      next  == IF prev + 1 < n THEN prev + 1 ELSE n - 1
      a     == arr[prev + 1]
      b     == arr[next + 1]
  IN [num |-> 100 * a + (b - a) * gamma, den |-> 100]

\* the integer nearest to num/den, a tie going to the even one (den > 0)
rint(num, den) ==
  LET q == num \div den
      r == num % den
  IN IF 2 * r < den THEN q
     ELSE IF 2 * r > den THEN q + 1
     ELSE IF q % 2 = 0 THEN q ELSE q + 1

RECURSIVE Pow10(_)
Pow10(k) == IF k = 0 THEN 1 ELSE 10 * Pow10(k - 1)

\* round(x, ndigits) of a numpy float: x scaled by 10^ndigits, rounded half
\* to even, scaled back.  x is a fraction of thousandths, the result a
\* number of thousandths; ndigits <= 3.
round(x, ndigits) ==
  LET step == Pow10(3 - ndigits)
  IN step * rint(x.num, x.den * step)

(***************************************************************************)
(* RegionMetrics and calculate_metrics.                                    *)
(***************************************************************************)
RegionMetrics(avg_latency, p95_latency, avg_uptime, breaches) ==
  [avg_latency |-> avg_latency, p95_latency |-> p95_latency,
   avg_uptime |-> avg_uptime, breaches |-> breaches]

\* variant: a latency equal to the threshold counted too
RECURSIVE count_breaches_ge(_, _)
count_breaches_ge(latencies, threshold_ms) ==
  IF latencies = <<>> THEN 0
  ELSE (IF Head(latencies) >= threshold_ms THEN 1 ELSE 0)
       + count_breaches_ge(Tail(latencies), threshold_ms)
\* variant: the latencies below the threshold counted
RECURSIVE count_breaches_below(_, _)
count_breaches_below(latencies, threshold_ms) ==
  IF latencies = <<>> THEN 0
  ELSE (IF Head(latencies) < threshold_ms THEN 1 ELSE 0)
       + count_breaches_below(Tail(latencies), threshold_ms)
\* sum(1 for lat in latencies if lat > threshold_ms)
RECURSIVE count_breaches(_, _)
count_breaches(latencies, threshold_ms) ==
  IF latencies = <<>> THEN 0
  ELSE (IF Head(latencies) > threshold_ms THEN 1 ELSE 0)
       + count_breaches(Tail(latencies), threshold_ms)

\* variant: an empty list reported as fully up
calculate_metrics_full_uptime(data, threshold_ms) ==
  IF data = <<>>
    THEN RegionMetrics(0, 0, 1000, 0)
    ELSE
      LET latencies == [i \in DOMAIN data |-> data[i].latency_ms]
          uptimes   == [i \in DOMAIN data |-> data[i].uptime]
      IN RegionMetrics(round(np_mean(latencies), 2),
                       round(np_percentile(latencies, 95), 2),
                       round(np_mean(uptimes), 2),
                       count_breaches(latencies, threshold_ms))
\* calculate_metrics(data, threshold_ms)
calculate_metrics(data, threshold_ms) ==
  IF data = <<>>
    THEN RegionMetrics(0, 0, 0, 0)
    ELSE
      LET latencies   == [i \in DOMAIN data |-> data[i].latency_ms]
          uptimes     == [i \in DOMAIN data |-> data[i].uptime]
          avg_latency == np_mean(latencies)
          p95_latency == np_percentile(latencies, 95)
          avg_uptime  == np_mean(uptimes)
          breaches    == count_breaches(latencies, threshold_ms)
      IN RegionMetrics(round(avg_latency, 2),
                       round(p95_latency, 2),
                       round(avg_uptime, 2),
                       breaches)

(***************************************************************************)
(* load_telemetry_data: the dataset file and json.load.                    *)
(***************************************************************************)
\* one record of the dataset
Sample(latency_ms, uptime) == [latency_ms |-> latency_ms, uptime |-> uptime]

\* json.load of an object: members are inserted in file order, so a repeated
\* key keeps its first place and takes its last value
RECURSIVE json_load(_, _)
json_load(members, d) ==
  IF members = <<>> THEN d
  ELSE json_load(Tail(members), SetItem(d, Head(members)[1], Head(members)[2]))

\* variant: only FileNotFoundError caught
load_telemetry_data_narrow_except(f) ==
  IF f.status = "ok"
    THEN [raised |-> FALSE, value |-> json_load(f.members, EmptyDict)]
    ELSE IF f.status = "missing"
      THEN [raised |-> FALSE, value |-> EmptyDict]
      ELSE [raised |-> TRUE, value |-> EmptyDict]
\* The try block returns the parsed file; every Exception (the file missing,
\* unreadable or not JSON) is caught and {} returned.  "raised" tells
\* whether an exception left the function.
load_telemetry_data(f) ==
  IF f.status = "ok"
    THEN [raised |-> FALSE, value |-> json_load(f.members, EmptyDict)]
    ELSE [raised |-> FALSE, value |-> EmptyDict]

(***************************************************************************)
(* The request handlers as functions of the dataset.                       *)
(***************************************************************************)
\* the default of MetricsRequest.threshold_ms, 180 ms
DefaultThresholdMs == 180000

\* MetricsRequest(**body): threshold_ms takes its default when not given
MetricsRequest(body) ==
  [regions |-> body.regions,
   threshold_ms |-> IF body.threshold_ms.given THEN body.threshold_ms.value
                    ELSE DefaultThresholdMs]

\* the for loop of get_metrics over request.regions
RECURSIVE get_metrics_loop(_, _, _, _)
get_metrics_loop(data, regions, threshold_ms, results) ==
  IF regions = <<>> THEN results
  ELSE LET region == Head(regions)
           entry  == IF HasKey(data, region)
                       THEN calculate_metrics(GetItem(data, region), threshold_ms)
                       ELSE RegionMetrics(0, 0, 0, 0)
       IN get_metrics_loop(data, Tail(regions), threshold_ms,
                           SetItem(results, region, entry))

\* variant: regions the dataset lacks left out of the answer
get_metrics_known_only(data, request) ==
  get_metrics_loop(data,
                   SelectSeq(request.regions, LAMBDA r : HasKey(data, r)),
                   request.threshold_ms, EmptyDict)
\* the body of get_metrics: results = {} ; for ... ; return results
get_metrics_body(data, request) ==
  get_metrics_loop(data, request.regions, request.threshold_ms, EmptyDict)

\* variant: regions without samples left out of the list
root_nonempty_only(data) ==
  [message |-> "eShopCo Metrics API",
   available_regions |-> Keys(SelectSeq(data, LAMBDA e : e[2] # <<>>))]
\* the body of root
root_body(data) ==
  [message |-> "eShopCo Metrics API", available_regions |-> Keys(data)]

(***************************************************************************)
(* Inputs.                                                                 *)
(***************************************************************************)
SeqsUpTo(S, n) == UNION {[1..k -> S] : k \in 0..n}

Regions == {"emea", "apac"}
Clients == {"c1", "c2"}

\* sample lists a region of the dataset file may hold
FileLists ==
  { <<>>,
    <<Sample(200000, 900), Sample(100004, 994)>> }

FileFailures == {"missing", "unreadable", "corrupt"}

Files ==
  {[status |-> s, members |-> <<>>] : s \in FileFailures}
  \cup {[status |-> "ok", members |-> m] :
          m \in SeqsUpTo(Regions \X FileLists, MaxMembers)}

\* JSON bodies of POST /api/metrics that pass validation
PostBodies ==
  [regions : SeqsUpTo(Regions, MaxRegions),
   threshold_ms : {[given |-> FALSE, value |-> 0],
                   [given |-> TRUE, value |-> 200000]}]

\* records handed to calculate_metrics in the calculator harness
Samples ==
  { Sample(100000, 990), Sample(150000, 950), Sample(200000, 900),
    Sample(100004, 994), Sample(100006, 996), Sample(100026, 985),
    Sample(0, 1000) }

Thresholds == {-1000, 0, 100004, 150000, 200000}

(***************************************************************************)
(* The service.                                                            *)
(***************************************************************************)
NoRequest == [kind |-> "idle", regions |-> <<>>, threshold_ms |-> 0]
NoResponse ==
  [kind |-> "none", results |-> EmptyDict, message |-> "",
   available_regions |-> <<>>]

Init ==
  /\ pc = "import"
  /\ file \in Files
  /\ TELEMETRY_DATA = EmptyDict
  /\ inflight = [c \in Clients |-> NoRequest]
  /\ responses = [c \in Clients |-> NoResponse]
  /\ samples = <<>>
  /\ calls = <<>>

\* TELEMETRY_DATA = load_telemetry_data(), run once when the module is
\* imported; an exception leaving it would end the import
Load ==
  /\ pc = "import"
  /\ LET r == load_telemetry_data(file)
     IN IF r.raised
          THEN pc' = "crashed" /\ UNCHANGED TELEMETRY_DATA
          ELSE pc' = "serving" /\ TELEMETRY_DATA' = r.value
  /\ UNCHANGED <<file, inflight, responses, samples, calls>>

\* the framework accepts and validates a POST /api/metrics
ArrivePost(c) ==
  /\ pc = "serving"
  /\ inflight[c].kind = "idle"
  /\ \E body \in PostBodies :
       inflight' = [inflight EXCEPT ![c] =
                      [kind |-> "post",
                       regions |-> MetricsRequest(body).regions,
                       threshold_ms |-> MetricsRequest(body).threshold_ms]]
  /\ UNCHANGED <<pc, file, TELEMETRY_DATA, responses, samples, calls>>

\* the framework accepts a GET /
ArriveGet(c) ==
  /\ pc = "serving"
  /\ inflight[c].kind = "idle"
  /\ inflight' = [inflight EXCEPT ![c] = [NoRequest EXCEPT !.kind = "get"]]
  /\ UNCHANGED <<pc, file, TELEMETRY_DATA, responses, samples, calls>>

\* variant: every requested region entered into the dataset
\* (TELEMETRY_DATA.setdefault(region, []))
get_metrics_setdefault(c) ==
  /\ pc = "serving"
  /\ inflight[c].kind = "post"
  /\ responses[c].kind = "none"
  /\ responses' = [responses EXCEPT ![c] =
                     [NoResponse EXCEPT
                        !.kind = "metrics",
                        !.results = get_metrics_body(TELEMETRY_DATA, inflight[c])]]
  /\ TELEMETRY_DATA' =
       json_load([i \in DOMAIN inflight[c].regions |->
                    <<inflight[c].regions[i],
                      IF HasKey(TELEMETRY_DATA, inflight[c].regions[i])
                        THEN GetItem(TELEMETRY_DATA, inflight[c].regions[i])
                        ELSE <<>> >>],
                 TELEMETRY_DATA)
  /\ UNCHANGED <<pc, file, inflight, samples, calls>>
\* async def get_metrics(request): it has no await, so it runs in one step
get_metrics(c) ==
  /\ pc = "serving"
  /\ inflight[c].kind = "post"
  /\ responses[c].kind = "none"
  /\ responses' = [responses EXCEPT ![c] =
                     [NoResponse EXCEPT
                        !.kind = "metrics",
                        !.results = get_metrics_body(TELEMETRY_DATA, inflight[c])]]
  /\ UNCHANGED <<pc, file, TELEMETRY_DATA, inflight, samples, calls>>

\* async def root()
root(c) ==
  /\ pc = "serving"
  /\ inflight[c].kind = "get"
  /\ responses[c].kind = "none"
  /\ responses' = [responses EXCEPT ![c] =
                     [NoResponse EXCEPT
                        !.kind = "root",
                        !.message = root_body(TELEMETRY_DATA).message,
                        !.available_regions =
                           root_body(TELEMETRY_DATA).available_regions]]
  /\ UNCHANGED <<pc, file, TELEMETRY_DATA, inflight, samples, calls>>

\* the framework sends the handler's return value to the client
Deliver(c) ==
  /\ responses[c].kind # "none"
  /\ responses' = [responses EXCEPT ![c] = NoResponse]
  /\ inflight' = [inflight EXCEPT ![c] = NoRequest]
  /\ UNCHANGED <<pc, file, TELEMETRY_DATA, samples, calls>>

Next ==
  \/ Load
  \/ \E c \in Clients : ArrivePost(c)
  \/ \E c \in Clients : ArriveGet(c)
  \/ \E c \in Clients : get_metrics(c)
  \/ \E c \in Clients : root(c)
  \/ \E c \in Clients : Deliver(c)

Spec == Init /\ [][Next]_vars

(***************************************************************************)
(* The calculator harness: calculate_metrics called directly, again and    *)
(* again, on one sample list with varying thresholds.  calls keeps the     *)
(* last two calls.                                                         *)
(***************************************************************************)
InitCalc ==
  /\ pc = "harness"
  /\ file = [status |-> "missing", members |-> <<>>]
  /\ TELEMETRY_DATA = EmptyDict
  /\ inflight = [c \in Clients |-> NoRequest]
  /\ responses = [c \in Clients |-> NoResponse]
  /\ samples \in SeqsUpTo(Samples, MaxSamples)
  /\ calls = <<>>

Call(threshold_ms) ==
  /\ pc = "harness"
  /\ LET call == [threshold_ms |-> threshold_ms,
                  result |-> calculate_metrics(samples, threshold_ms)]
     IN calls' = IF Len(calls) < 2 THEN Append(calls, call)
                 ELSE <<calls[2], call>>
  /\ UNCHANGED <<pc, file, TELEMETRY_DATA, inflight, responses, samples>>

NextCalc == \E threshold_ms \in Thresholds : Call(threshold_ms)

SpecCalc == InitCalc /\ [][NextCalc]_vars

(***************************************************************************)
(* Vocabulary of the properties.                                           *)
(***************************************************************************)
ZeroMetrics ==
  [avg_latency |-> 0, p95_latency |-> 0, avg_uptime |-> 0, breaches |-> 0]

SeqMin(xs) == CHOOSE v \in {xs[i] : i \in DOMAIN xs} : \A i \in DOMAIN xs : v <= xs[i]
SeqMax(xs) == CHOOSE v \in {xs[i] : i \in DOMAIN xs} : \A i \in DOMAIN xs : v >= xs[i]

Latencies == [i \in DOMAIN samples |-> samples[i].latency_ms]
Uptimes   == [i \in DOMAIN samples |-> samples[i].uptime]

\* a number of thousandths with at most two decimals
TwoDecimals(v) == v % 10 = 0

\* the clients holding an answer to POST /api/metrics, to GET /
Answered(c) == responses[c].kind = "metrics"
Listed(c)   == responses[c].kind = "root"

Requested(c) == {inflight[c].regions[i] : i \in DOMAIN inflight[c].regions}

\* the region is a key of the answer of client c and maps to m
Answers(c, region, m) ==
  /\ HasKey(responses[c].results, region)
  /\ GetItem(responses[c].results, region) = m

\* the sample list the dataset file gives a region: the last member of that
\* name; Absent when the file has none or could not be loaded
FileHas(region) ==
  /\ file.status = "ok"
  /\ \E i \in DOMAIN file.members : file.members[i][1] = region
FileList(region) ==
  LET last == CHOOSE i \in DOMAIN file.members :
                /\ file.members[i][1] = region
                /\ \A j \in DOMAIN file.members :
                     file.members[j][1] = region => j <= i
  IN file.members[last][2]

(***************************************************************************)
(* C1.  A requested region that is absent from the dataset and one that is *)
(* present with an empty sample list both get the RegionMetrics            *)
(* {0, 0, 0, 0}, whatever the threshold; calculate_metrics of an empty     *)
(* list is {0, 0, 0, 0} for every threshold.                               *)
(***************************************************************************)
C1_ZeroFallback ==
  /\ \A t \in Thresholds \cup {DefaultThresholdMs} :
       calculate_metrics(<<>>, t) = ZeroMetrics
  /\ \A c \in Clients : Answered(c) =>
       \A region \in Requested(c) :
         (\/ ~HasKey(TELEMETRY_DATA, region)
          \/ GetItem(TELEMETRY_DATA, region) = <<>>)
         => Answers(c, region, ZeroMetrics)

\* one answer covering an absent region and a present, empty one, and the
\* same request answered under the other threshold
C1_Witness ==
  /\ Answered("c1") /\ Answered("c2")
  /\ inflight["c1"].threshold_ms # inflight["c2"].threshold_ms
  /\ Requested("c1") = {"emea", "apac"}
  /\ Requested("c2") = {"emea", "apac"}
  /\ ~HasKey(TELEMETRY_DATA, "emea")
  /\ HasKey(TELEMETRY_DATA, "apac") /\ GetItem(TELEMETRY_DATA, "apac") = <<>>
  /\ \A c \in Clients : \A region \in Regions : Answers(c, region, ZeroMetrics)

(***************************************************************************)
(* C2.  For a non-empty sample list and any threshold (zero and negative   *)
(* ones too), breaches is the number of samples whose latency is strictly  *)
(* greater than the threshold; a latency equal to it is not counted.       *)
(***************************************************************************)
C2_BreachesStrict ==
  \A k \in DOMAIN calls :
    samples # <<>> =>
      calls[k].result.breaches =
        Cardinality({i \in DOMAIN samples :
                       samples[i].latency_ms > calls[k].threshold_ms})

\* a call at threshold 0 on a list with a latency of exactly 0 and larger ones
C2_Witness ==
  \E k \in DOMAIN calls :
    /\ calls[k].threshold_ms = 0
    /\ \E i \in DOMAIN samples : samples[i].latency_ms = 0
    /\ calls[k].result.breaches > 0
    /\ calls[k].result.breaches < Len(samples)

(***************************************************************************)
(* C3.  As claimed: for a non-empty sample list, the returned avg_latency  *)
(* lies between the minimum and maximum latency, and avg_uptime between    *)
(* the minimum and maximum uptime.                                         *)
(***************************************************************************)
C3_Original ==
  \A k \in DOMAIN calls :
    samples # <<>> =>
      /\ SeqMin(Latencies) <= calls[k].result.avg_latency
      /\ calls[k].result.avg_latency <= SeqMax(Latencies)
      /\ SeqMin(Uptimes) <= calls[k].result.avg_uptime
      /\ calls[k].result.avg_uptime <= SeqMax(Uptimes)

(***************************************************************************)
(* C3, amended.  The returned averages are rounded to two decimals, so     *)
(* they lie within 0.005 of the interval from minimum to maximum, and      *)
(* within the interval itself when the minimum and the maximum have at     *)
(* most two decimals.                                                      *)
(***************************************************************************)
C3_AveragesNearBounds ==
  \A k \in DOMAIN calls :
    samples # <<>> =>
      LET Near(avg, xs) ==
            /\ SeqMin(xs) - 5 <= avg
            /\ avg <= SeqMax(xs) + 5
            /\ TwoDecimals(SeqMin(xs)) => SeqMin(xs) <= avg
            /\ TwoDecimals(SeqMax(xs)) => avg <= SeqMax(xs)
      IN /\ Near(calls[k].result.avg_latency, Latencies)
         /\ Near(calls[k].result.avg_uptime, Uptimes)

\* a call on samples that differ, the averages strictly inside the bounds
C3_Witness ==
  \E k \in DOMAIN calls :
    /\ Len(samples) >= 2
    /\ SeqMin(Latencies) < calls[k].result.avg_latency
    /\ calls[k].result.avg_latency < SeqMax(Latencies)
    /\ SeqMin(Uptimes) < calls[k].result.avg_uptime
    /\ calls[k].result.avg_uptime < SeqMax(Uptimes)
    /\ ~TwoDecimals(SeqMin(Latencies))

(***************************************************************************)
(* C4.  As claimed: for a non-empty sample list, the returned p95_latency  *)
(* is at most the maximum latency.                                         *)
(***************************************************************************)
C4_Original ==
  \A k \in DOMAIN calls :
    samples # <<>> => calls[k].result.p95_latency <= SeqMax(Latencies)

(***************************************************************************)
(* C4, amended.  The returned p95_latency is rounded to two decimals, so   *)
(* it is at most the maximum latency plus 0.005, and at most the maximum   *)
(* itself when the maximum has at most two decimals.                       *)
(***************************************************************************)
C4_P95NearMax ==
  \A k \in DOMAIN calls :
    samples # <<>> =>
      /\ calls[k].result.p95_latency <= SeqMax(Latencies) + 5
      /\ TwoDecimals(SeqMax(Latencies)) =>
           calls[k].result.p95_latency <= SeqMax(Latencies)

\* a call on three different latencies: the percentile lies strictly between
\* the two largest
C4_Witness ==
  \E k \in DOMAIN calls :
    /\ Len(samples) = 3
    /\ calls[k].result.p95_latency < SeqMax(Latencies)
    /\ \E i \in DOMAIN samples :
         /\ samples[i].latency_ms < SeqMax(Latencies)
         /\ \A j \in DOMAIN samples :
              samples[j].latency_ms < SeqMax(Latencies)
                => samples[j].latency_ms <= samples[i].latency_ms
         /\ samples[i].latency_ms < calls[k].result.p95_latency

(***************************************************************************)
(* C5.  For a sample list of length n >= 1, p95_latency is: the latencies  *)
(* sorted ascending, the rank r = 0.95 * (n - 1), the linear interpolation *)
(* between the sorted values at floor(r) and ceil(r), rounded to two       *)
(* decimals.  Latencies 100, 150, 200 give 195.0; a single sample gives    *)
(* its own latency (to two decimals).                                      *)
(***************************************************************************)
\* the value at position k (from 0) of xs sorted ascending
Ranked(xs, k) ==
  CHOOSE v \in {xs[i] : i \in DOMAIN xs} :
    /\ Cardinality({i \in DOMAIN xs : xs[i] < v}) <= k
    /\ k < Cardinality({i \in DOMAIN xs : xs[i] <= v})

\* the multiple of 0.01 nearest to num/100 thousandths, a tie going to the
\* even multiple
NearestCent(num) ==
  LET Dist(m) == IF 100 * m >= num THEN 100 * m - num ELSE num - 100 * m
      base    == 10 * (num \div 1000)
  IN CHOOSE m \in {base - 10, base, base + 10, base + 20} :
       \/ Dist(m) < 500
       \/ Dist(m) = 500 /\ (m \div 10) % 2 = 0

\* 100 times the interpolated value at rank 0.95 * (n - 1)
InterpolatedP95(xs) ==
  LET r100  == 95 * (Len(xs) - 1)
      floor == r100 \div 100
      ceil  == IF r100 % 100 = 0 THEN floor ELSE floor + 1
  IN IF floor = ceil
       THEN 100 * Ranked(xs, floor)
       ELSE Ranked(xs, floor) * (100 * ceil - r100)
            + Ranked(xs, ceil) * (r100 - 100 * floor)

C5_P95Interpolated ==
  \A k \in DOMAIN calls :
    samples # <<>> =>
      /\ calls[k].result.p95_latency = NearestCent(InterpolatedP95(Latencies))
      /\ Len(samples) = 1 =>
           calls[k].result.p95_latency = NearestCent(100 * Latencies[1])
      /\ {Latencies[i] : i \in DOMAIN Latencies} = {100000, 150000, 200000}
         /\ Len(samples) = 3
           => calls[k].result.p95_latency = 195000

\* the example, its latencies given out of order
C5_Witness ==
  \E k \in DOMAIN calls :
    /\ Latencies = <<200000, 100000, 150000>>
    /\ calls[k].result.p95_latency = 195000

(***************************************************************************)
(* C6.  With the samples fixed, breaches does not grow with the            *)
(* threshold: of two calls, the one with the larger threshold reports no   *)
(* more breaches.                                                          *)
(***************************************************************************)
C6_BreachesMonotone ==
  \A j, k \in DOMAIN calls :
    calls[j].threshold_ms <= calls[k].threshold_ms
      => calls[k].result.breaches <= calls[j].result.breaches

\* two calls, the threshold raised and the breaches fewer
C6_Witness ==
  /\ Len(calls) = 2
  /\ calls[1].threshold_ms < calls[2].threshold_ms
  /\ calls[2].result.breaches < calls[1].result.breaches
  /\ calls[2].result.breaches > 0

(***************************************************************************)
(* C7.  When loading the dataset file fails (missing, unreadable or        *)
(* corrupt), the process still reaches its serving state, with an empty    *)
(* dataset, and every POST /api/metrics answers {0, 0, 0, 0} for every     *)
(* requested region.                                                       *)
(***************************************************************************)
C7_LoadFailureNotFatal ==
  file.status \in FileFailures /\ pc # "import" =>
    /\ pc = "serving"
    /\ TELEMETRY_DATA = EmptyDict
    /\ \A c \in Clients : Answered(c) =>
         \A region \in Requested(c) : Answers(c, region, ZeroMetrics)

\* a corrupt file, the service up and a request for two regions answered
C7_Witness ==
  /\ file.status = "corrupt"
  /\ pc = "serving"
  /\ \E c \in Clients :
       /\ Answered(c)
       /\ Requested(c) = Regions
       /\ \A region \in Regions : Answers(c, region, ZeroMetrics)

(***************************************************************************)
(* C8.  No request handler changes the dataset: in every step taken while  *)
(* serving it stays what it was, namely what the load at startup produced; *)
(* so every answer is what the handler computes from the startup dataset   *)
(* alone, whatever other requests are in flight or were served before, and *)
(* two clients making the same request hold the same answer.               *)
(***************************************************************************)
C8_DatasetReadOnly ==
  /\ [][pc = "serving" => TELEMETRY_DATA' = TELEMETRY_DATA]_vars
  /\ [](pc = "serving" =>
          /\ TELEMETRY_DATA = load_telemetry_data(file).value
          /\ \A c \in Clients :
               /\ Answered(c) =>
                    responses[c].results =
                      get_metrics_body(load_telemetry_data(file).value, inflight[c])
               /\ Listed(c) =>
                    responses[c].available_regions =
                      root_body(load_telemetry_data(file).value).available_regions
          /\ \A c, d \in Clients :
               inflight[c] = inflight[d]
               /\ responses[c].kind # "none" /\ responses[d].kind # "none"
                 => responses[c] = responses[d])

\* both clients answered at once, one of them asking for a region the
\* dataset lacks, the other listing the regions
C8_Witness ==
  /\ pc = "serving"
  /\ TELEMETRY_DATA # EmptyDict
  /\ Answered("c1") /\ Listed("c2")
  /\ \E region \in Requested("c1") : ~HasKey(TELEMETRY_DATA, region)
  /\ \E region \in Requested("c1") : HasKey(TELEMETRY_DATA, region)

(***************************************************************************)
(* C9.  The answer to POST /api/metrics has exactly the requested region   *)
(* names as keys, each once, each mapped to that region's RegionMetrics;   *)
(* an empty regions list gives an empty mapping.                           *)
(***************************************************************************)
C9_AnswerKeys ==
  \A c \in Clients : Answered(c) =>
    LET results == responses[c].results
    IN /\ {results[i][1] : i \in DOMAIN results} = Requested(c)
       /\ Len(results) = Cardinality(Requested(c))
       /\ inflight[c].regions = <<>> => results = <<>>
       /\ \A region \in Requested(c) :
            Answers(c, region,
                    IF FileHas(region)
                      THEN calculate_metrics(FileList(region),
                                             inflight[c].threshold_ms)
                      ELSE ZeroMetrics)

\* a request naming one region twice, answered with one entry, while the
\* dataset holds a region that was not requested
C9_Witness ==
  \E c \in Clients :
    /\ Answered(c)
    /\ inflight[c].regions = <<"emea", "emea">>
    /\ Len(responses[c].results) = 1
    /\ HasKey(TELEMETRY_DATA, "apac")
    /\ ~HasKey(TELEMETRY_DATA, "emea")

(***************************************************************************)
(* C10.  GET / lists exactly the region keys of the loaded dataset, each   *)
(* once, a key with an empty sample list included; with an empty dataset   *)
(* the list is empty.                                                      *)
(***************************************************************************)
C10_AvailableRegions ==
  \A c \in Clients : Listed(c) =>
    LET listed == responses[c].available_regions
    IN /\ {listed[i] : i \in DOMAIN listed} =
            {region \in Regions : FileHas(region)}
       /\ Len(listed) = Cardinality({region \in Regions : FileHas(region)})
       /\ TELEMETRY_DATA = EmptyDict => listed = <<>>

\* a listing that holds a region with an empty sample list and one with
\* samples
C10_Witness ==
  \E c \in Clients :
    /\ Listed(c)
    /\ Len(responses[c].available_regions) = 2
    /\ \E region \in Regions :
         HasKey(TELEMETRY_DATA, region) /\ GetItem(TELEMETRY_DATA, region) = <<>>

====
